---- MODULE Spec2Model ----
(***************************************************************************)
(* Model of the wind-energy estimator backend (src/main.py): the request   *)
(* handlers resolve_gmaps_url, search_location, estimate_power and         *)
(* compare_power, the helper fetch_weather and the pure calculation        *)
(* functions.  Text is modelled as sequences of one-character strings, so  *)
(* that the regular expressions, percent-decoding and float parsing of the *)
(* code are computed and not assumed.                                      *)
(***************************************************************************)
EXTENDS Integers, Sequences, FiniteSets, TLC

(***************************************************************************)
(* Bounds of the model.                                                    *)
(***************************************************************************)
\* pieces concatenated into a landing URL
MaxPieces == 3
\* pieces concatenated into a /place/ path segment
MaxSegPieces == 3
\* locations in the body of a /compare request
MaxLocations == 3

(***************************************************************************)
(* Characters and text helpers.                                            *)
(***************************************************************************)
Digits == {"0", "1", "2", "3", "4", "5", "6", "7", "8", "9"}

IsDigit(c) == c \in Digits

DigitVal(c) ==
    CASE c = "0" -> 0 [] c = "1" -> 1 [] c = "2" -> 2 [] c = "3" -> 3
      [] c = "4" -> 4 [] c = "5" -> 5 [] c = "6" -> 6 [] c = "7" -> 7
      [] c = "8" -> 8 [] c = "9" -> 9

RECURSIVE Concat(_)
Concat(ss) == IF ss = <<>> THEN <<>> ELSE Head(ss) \o Concat(Tail(ss))

\* first index k >= i of s that holds no digit (Len(s)+1 when the digits run
\* to the end): where a greedy \d+ started at i stops
DigitRunEnd(s, i) ==
    CHOOSE k \in i..(Len(s) + 1) :
        /\ (k = Len(s) + 1 \/ ~IsDigit(s[k]))
        /\ \A m \in i..(k - 1) : IsDigit(s[m])

\* MatchDecimalAt with the sign left out of the pattern: \d+\.\d+
MatchDecimalAtUnsigned(s, i) ==
    LET d1 == IF i <= Len(s) + 1 THEN DigitRunEnd(s, i) ELSE i
        d2 == IF d1 + 1 <= Len(s) + 1 THEN DigitRunEnd(s, d1 + 1) ELSE d1 + 1
    IN  IF d1 > i /\ d1 <= Len(s) /\ s[d1] = "." /\ d2 > d1 + 1
        THEN d2
        ELSE 0

\* the regular expression -?\d+\.\d+ matched at index i of s: the index after
\* the match, or 0 when it does not match there
MatchDecimalAt(s, i) ==
    LET j  == IF i <= Len(s) /\ s[i] = "-" THEN i + 1 ELSE i
        d1 == IF j <= Len(s) + 1 THEN DigitRunEnd(s, j) ELSE j
        d2 == IF d1 + 1 <= Len(s) + 1 THEN DigitRunEnd(s, d1 + 1) ELSE d1 + 1
    IN  IF /\ d1 > j
           /\ d1 <= Len(s)
           /\ s[d1] = "."
           /\ d2 > d1 + 1
        THEN d2
        ELSE 0

\* r"@(-?\d+\.\d+),(-?\d+\.\d+)" matched at index i: the two groups, or <<>>
CoordMatchAt(s, i) ==
    IF i > Len(s) \/ s[i] # "@" THEN <<>>
    ELSE LET e1 == MatchDecimalAt(s, i + 1)
         IN  IF e1 = 0 \/ e1 > Len(s) \/ s[e1] # "," THEN <<>>
             ELSE LET e2 == MatchDecimalAt(s, e1 + 1)
                  IN  IF e2 = 0 THEN <<>>
                      ELSE << SubSeq(s, i + 1, e1 - 1),
                              SubSeq(s, e1 + 1, e2 - 1) >>

\* r"!3d(-?\d+\.\d+)!4d(-?\d+\.\d+)" matched at index i: the two groups,
\* or <<>>
BangMatchAt(s, i) ==
    IF i + 2 > Len(s) \/ SubSeq(s, i, i + 2) # << "!", "3", "d" >> THEN <<>>
    ELSE LET e1 == MatchDecimalAt(s, i + 3)
         IN  IF e1 = 0 \/ e1 + 2 > Len(s)
                \/ SubSeq(s, e1, e1 + 2) # << "!", "4", "d" >>
             THEN <<>>
             ELSE LET e2 == MatchDecimalAt(s, e1 + 3)
                  IN  IF e2 = 0 THEN <<>>
                      ELSE << SubSeq(s, i + 3, e1 - 1),
                              SubSeq(s, e1 + 3, e2 - 1) >>

\* CoordSearch with the !3d...!4d... pattern tried when the @ pattern is
\* not found
CoordSearchWithBang(s) ==
    LET hits  == { i \in 1..Len(s) : CoordMatchAt(s, i) # <<>> }
        bangs == { i \in 1..Len(s) : BangMatchAt(s, i) # <<>> }
    IN  IF hits # {}
        THEN CoordMatchAt(s, CHOOSE i \in hits : \A j \in hits : i <= j)
        ELSE IF bangs # {}
        THEN BangMatchAt(s, CHOOSE i \in bangs : \A j \in bangs : i <= j)
        ELSE <<>>

\* re.search(r"@(-?\d+\.\d+),(-?\d+\.\d+)", final_url): the groups of the
\* leftmost match, or <<>> (None)
CoordSearch(s) ==
    LET hits == { i \in 1..Len(s) : CoordMatchAt(s, i) # <<>> }
    IN  IF hits = {} THEN <<>>
        ELSE CoordMatchAt(s, CHOOSE i \in hits : \A j \in hits : i <= j)

PlaceLit == << "/", "p", "l", "a", "c", "e", "/" >>

\* first index k >= i of s that holds a "/" (Len(s)+1 when none): where a
\* greedy [^/]+ started at i stops
NonSlashRunEnd(s, i) ==
    CHOOSE k \in i..(Len(s) + 1) :
        /\ (k = Len(s) + 1 \/ s[k] = "/")
        /\ \A m \in i..(k - 1) : s[m] # "/"

\* r"/place/([^/]+)" matched at index i: <<group 1>>, or <<>>
PlaceMatchAt(s, i) ==
    IF /\ i + Len(PlaceLit) <= Len(s)
       /\ SubSeq(s, i, i + Len(PlaceLit) - 1) = PlaceLit
       /\ s[i + Len(PlaceLit)] # "/"
    THEN << SubSeq(s, i + Len(PlaceLit),
                   NonSlashRunEnd(s, i + Len(PlaceLit)) - 1) >>
    ELSE <<>>

\* re.search(r"/place/([^/]+)", final_url): <<group 1>> of the leftmost
\* match, or <<>> (None)
PlaceSearch(s) ==
    LET hits == { i \in 1..Len(s) : PlaceMatchAt(s, i) # <<>> }
    IN  IF hits = {} THEN <<>>
        ELSE PlaceMatchAt(s, CHOOSE i \in hits : \A j \in hits : i <= j)

\* str.replace('+', ' ')
ReplacePlus(s) == [ i \in 1..Len(s) |-> IF s[i] = "+" THEN " " ELSE s[i] ]

HexDigits == Digits \cup {"A", "B", "C", "D", "E", "F",
                          "a", "b", "c", "d", "e", "f"}

HexVal(c) ==
    CASE c \in Digits -> DigitVal(c)
      [] c \in {"A", "a"} -> 10 [] c \in {"B", "b"} -> 11
      [] c \in {"C", "c"} -> 12 [] c \in {"D", "d"} -> 13
      [] c \in {"E", "e"} -> 14 [] c \in {"F", "f"} -> 15

\* the character of a decoded byte; the bytes the model's URLs escape are
\* ASCII, any other byte decodes (errors='replace') to U+FFFD
Chr(b) ==
    CASE b = 32 -> " " [] b = 37 -> "%" [] b = 43 -> "+" [] b = 47 -> "/"
      [] b = 124 -> "|" [] b = 97 -> "a"
      [] OTHER -> "U+FFFD"

\* urllib.parse.unquote: every %XX with two hex digits becomes its byte, any
\* other % stays as it is
RECURSIVE Unquote(_)
Unquote(s) ==
    IF s = <<>> THEN <<>>
    ELSE IF /\ s[1] = "%"
            /\ Len(s) >= 3
            /\ s[2] \in HexDigits
            /\ s[3] \in HexDigits
         THEN << Chr(16 * HexVal(s[2]) + HexVal(s[3])) >>
                  \o Unquote(SubSeq(s, 4, Len(s)))
         ELSE << s[1] >> \o Unquote(Tail(s))

\* str.split('|')[0]
SplitFirstBar(s) ==
    LET bars == { i \in 1..Len(s) : s[i] = "|" }
    IN  IF bars = {} THEN s
        ELSE SubSeq(s, 1, (CHOOSE i \in bars : \A j \in bars : i <= j) - 1)

IsSpace(c) == c = " "

\* str.strip()
Strip(s) ==
    LET keep == { i \in 1..Len(s) : ~IsSpace(s[i]) }
    IN  IF keep = {} THEN <<>>
        ELSE SubSeq(s, CHOOSE i \in keep : \A j \in keep : i <= j,
                       CHOOSE i \in keep : \A j \in keep : i >= j)

\* SearchName with the segment decoded before its '+' are replaced
SearchNameDecodeFirst(segment) ==
    Strip(SplitFirstBar(ReplacePlus(Unquote(segment))))

\* lines 112-114: the name sent to the geocoder, from group 1 of the match
SearchName(segment) == Strip(SplitFirstBar(Unquote(ReplacePlus(segment))))

(***************************************************************************)
(* float(): a decimal literal's value as <<mantissa, k>> standing for      *)
(* mantissa * 10^-k, with no trailing zero kept in the fraction, so that   *)
(* two literals of the same number have the same value.  <<>> stands for   *)
(* ValueError.                                                             *)
(***************************************************************************)
RECURSIVE DigitsValue(_)
DigitsValue(s) ==
    IF s = <<>> THEN 0
    ELSE 10 * DigitsValue(SubSeq(s, 1, Len(s) - 1)) + DigitVal(s[Len(s)])

RECURSIVE Normalise(_, _)
Normalise(m, k) ==
    IF k > 0 /\ m % 10 = 0 THEN Normalise(m \div 10, k - 1) ELSE << m, k >>

PyFloat(s) ==
    LET neg  == s # <<>> /\ s[1] = "-"
        body == IF s # <<>> /\ s[1] \in {"-", "+"} THEN Tail(s) ELSE s
        dots == { i \in 1..Len(body) : body[i] = "." }
        dot  == IF dots = {} THEN Len(body) + 1
                ELSE CHOOSE i \in dots : \A j \in dots : i <= j
        ip   == SubSeq(body, 1, dot - 1)
        fp   == SubSeq(body, dot + 1, Len(body))
        ok   == /\ Cardinality(dots) <= 1
                /\ \A i \in 1..Len(ip) : IsDigit(ip[i])
                /\ \A i \in 1..Len(fp) : IsDigit(fp[i])
                /\ Len(ip) + Len(fp) > 0
        mag  == Normalise(DigitsValue(ip \o fp), Len(fp))
    IN  IF ~ok THEN <<>>
        ELSE IF neg THEN << 0 - mag[1], mag[2] >> ELSE mag

(***************************************************************************)
(* The calculation helpers, in fixed point: temperatures in whole degrees  *)
(* Celsius, wind speeds in whole m/s on input, pressure in Pa, air density *)
(* in 10^-4 kg/m^3, adjusted wind speed in 10^-2 m/s and power in 10^-4 W. *)
(***************************************************************************)
\* round(x / d) for x >= 0
RoundDiv(x, d) == (2 * x + d) \div (2 * d)

\* pressure_hPa = 1013.25 (line 49) is 101325 Pa (line 59)
StandardPressurePa == 101325

\* R_SPECIFIC = 287.05, times 100
RSpecificX100 == 28705

\* 273.15, times 100
KelvinOffsetX100 == 27315

\* calculate_air_density, in 10^-4 kg/m^3
CalculateAirDensity(temp_C, pressure_Pa) ==
    LET temp_K_x100 == temp_C * 100 + KelvinOffsetX100
    IN  (pressure_Pa * 10000) \div ((RSpecificX100 * temp_K_x100) \div 10000)

\* (h / ref_height) ** alpha for ref_height = 10 and alpha = 0.14, times
\* 10^4, tabulated for the hub heights of the model's requests
HeightFactorX10000(h) ==
    CASE h = 10 -> 10000
      [] h = 20 -> 11019
      [] h = 40 -> 12142
      [] h = 80 -> 13379

\* adjust_wind_speed_for_height, in 10^-2 m/s
AdjustWindSpeedForHeight(v_ref, h) == (v_ref * HeightFactorX10000(h)) \div 100

\* math.pi, times 10^5
PiX100000 == 314159

\* calculate_power_output, in 10^-4 W
CalculatePowerOutput(air_density, wind_speed, blade_radius) ==
    LET swept_area_x100 == (PiX100000 * blade_radius * blade_radius) \div 1000
        speed_cubed_x100 == (wind_speed * wind_speed * wind_speed) \div 10000
    IN  (((air_density * swept_area_x100) \div 10000) * speed_cubed_x100) \div 2

\* lines 159-168 and 176-185: the estimation of one location
Estimation(loc, weather) ==
    LET air_density == CalculateAirDensity(weather.temperature_C,
                                           weather.pressure_Pa)
        adjusted_speed == AdjustWindSpeedForHeight(weather.wind_speed_mps,
                                                   loc.turbine_height)
        power == CalculatePowerOutput(air_density, adjusted_speed,
                                      loc.blade_radius)
    IN  [ location_input |-> [ latitude |-> loc.latitude,
                               longitude |-> loc.longitude ],
          weather |-> weather,
          \* round(air_density, 3), in 10^-3 kg/m^3
          air_density_kg_m3 |-> RoundDiv(air_density, 10),
          adjusted_wind_speed_mps |-> adjusted_speed,
          \* round(power, 2), in 10^-2 W
          estimated_power_W |-> RoundDiv(power, 100) ]

(***************************************************************************)
(* Exceptions.  requests.exceptions: Timeout, ConnectionError, HTTPError   *)
(* (raise_for_status) and JSONDecodeError are RequestExceptions; fastapi's *)
(* HTTPException carries the status of the response; KeyError and          *)
(* ValueError are not handled by any handler.                              *)
(***************************************************************************)
Exc(type, code) == [ type |-> type, code |-> code ]

IsRequestException(e) ==
    e.type \in {"Timeout", "ConnectionError", "HTTPError", "JSONDecodeError"}

\* Response.raise_for_status raises HTTPError for a 4xx or 5xx status
RaisesForStatus(code) == 400 <= code /\ code < 600

\* the status of the response to a request whose handler let exception e
\* escape: an HTTPException's own status, else 500
EscapedStatus(e) == IF e.type = "HTTPException" THEN e.code ELSE 500

(***************************************************************************)
(* What the upstream providers may answer.                                 *)
(***************************************************************************)
\* exceptions requests.get may raise for a network failure
NetworkExceptions == {"Timeout", "ConnectionError"}

HttpCodes == {200, 404}

SeqsUpTo(S, n) == UNION { [1..k -> S] : k \in 0..n }

MarkerA == << "@", "1", ".", "5", ",", "-", "2", ".", "2", "5" >>
MarkerB == << "@", "-", "3", ".", "5", ",", "4", ".", "0" >>
MarkerNoDecimals == << "@", "1", ",", "2" >>
MarkerCut == << "@", "1", ".", "5", "," >>
BangMarker == << "!", "3", "d", "1", ".", "5", "!", "4", "d",
                 "-", "2", ".", "2", "5" >>

UrlPieces == { << "/" >>, PlaceLit \o << "a" >>, MarkerA, MarkerB,
               MarkerNoDecimals, MarkerCut, BangMarker }

SegPieces == { << "a" >>, << "+" >>, << "%", "2", "B" >>,
               << "%", "7", "C" >>, << "%", "2", "0" >> }

\* the URLs a redirect chain may land on: up to MaxPieces pieces, or a
\* /place/ segment of up to MaxSegPieces pieces with or without a tail
FinalUrls ==
    { Concat(ps) : ps \in SeqsUpTo(UrlPieces, MaxPieces) \ { <<>> } }
    \cup { PlaceLit \o Concat(ps) \o tail :
             ps \in SeqsUpTo(SegPieces, MaxSegPieces),
             tail \in { <<>>, << "/" >> \o BangMarker } }

\* Nominatim results: lat and lon are JSON strings
GeoRecords ==
    { [ lat |-> << "1", "2", ".", "5" >>, lon |-> << "-", "7", ".", "2", "5" >>,
        display_name |-> << "n" >> ],
      [ lat |-> << "4", ".", "0" >>, lon |-> << "4", ".", "0", "0" >>,
        display_name |-> <<>> ],
      [ lat |-> << "x" >>, lon |-> << "1", ".", "0" >>,
        display_name |-> << "m" >> ] }

\* JSON bodies of the geocoder: [valid, data]
GeoBodies ==
    { [ valid |-> FALSE, data |-> <<>> ] }
    \cup { [ valid |-> TRUE, data |-> d ] : d \in SeqsUpTo(GeoRecords, 1) }
    \cup { [ valid |-> TRUE, data |-> << r, r2 >> ] :
             r \in GeoRecords,
             r2 \in { g \in GeoRecords : g.display_name = << "n" >> } }

\* the 'current_weather' objects of the weather provider
Observations ==
    { [ temperature |-> 15, windspeed |-> 5 ],
      [ temperature |-> 0 - 5, windspeed |-> 8 ] }

\* JSON bodies of the weather provider: current_weather is <<>> when the
\* key is missing
WeatherBodies ==
    { [ valid |-> FALSE, current_weather |-> <<>> ],
      [ valid |-> TRUE, current_weather |-> <<>> ] }
    \cup { [ valid |-> TRUE, current_weather |-> << o >> ] : o \in Observations }

\* bodies of WindRequest
WindRequests ==
    { [ latitude |-> 12, longitude |-> 77, blade_radius |-> 2,
        turbine_height |-> 10 ],
      [ latitude |-> 51, longitude |-> 0, blade_radius |-> 3,
        turbine_height |-> 80 ] }

SearchNames == { << "a" >>, <<>> }

\* what json.JSONDecodeError is to the handlers: a RequestException since
\* requests 2.27, a plain ValueError before
JsonErrorTypes == {"JSONDecodeError", "ValueError"}

\* the exceptions response.json() may raise for a body
JsonErrorsOf(json) == IF json.valid THEN {"none"} ELSE JsonErrorTypes

(***************************************************************************)
(* The service.  One request is in progress at a time (requests share no   *)
(* state); a handler's step runs from one outbound call to the next.       *)
(***************************************************************************)
VARIABLES
    pc,           \* "idle", "<call>_wait" while an outbound call is pending, "done"
    op,           \* the handler of the request in progress
    calls,        \* the outbound calls of the request, in order:
                  \* [kind, arg, timeout], timeout <<>> when none is given
    replies,      \* what came back for them, in order: [kind, code, json],
                  \* kind "http" or the exception requests raised
    landing,      \* <<final_url>> once the redirect-follow returned
    search_name,  \* <<search_name>> once a place name was extracted
    locations,    \* req.locations (/compare) or <<req>> (/estimate)
    results,      \* the results list of compare_power
    status,       \* status of the response, 0 while the request is in progress
    body          \* the response body: a sequence of objects, <<>> for an error

vars == << pc, op, calls, replies, landing, search_name, locations, results,
           status, body >>

Call(kind, arg, timeout) == [ kind |-> kind, arg |-> arg, timeout |-> timeout ]

Reply(kind, code, json) == [ kind |-> kind, code |-> code, json |-> json ]

\* the reply that is exception `type` raised by requests
Raised(type) == Reply(type, 0, <<>>)

\* requests raises Timeout only for a call that was given a timeout
CanRaise(type) == type = "Timeout" => calls[Len(calls)].timeout # <<>>

Init ==
    /\ pc = "idle"
    /\ op = "none"
    /\ calls = <<>>
    /\ replies = <<>>
    /\ landing = <<>>
    /\ search_name = <<>>
    /\ locations = <<>>
    /\ results = <<>>
    /\ status = 0
    /\ body = <<>>

\* the request ends with an error response
Fail(code) ==
    /\ pc' = "done"
    /\ status' = code
    /\ body' = <<>>

\* the request ends with a 200 response
Succeed(b) ==
    /\ pc' = "done"
    /\ status' = 200
    /\ body' = b

(***************************************************************************)
(* POST /resolve-gmaps-url                                                 *)
(***************************************************************************)
\* ResolveExcept as "except Exception": every exception becomes a 503
ResolveExceptAll(e) == 503

\* lines 143-144: except requests.RequestException -> 503; anything else
\* escapes the handler
ResolveExcept(e) == IF IsRequestException(e) THEN 503 ELSE EscapedStatus(e)

\* lines 92-94: the redirect-follow is issued
ResolveStart ==
    /\ pc = "idle"
    /\ pc' = "redirect_wait"
    /\ op' = "resolve"
    /\ calls' = << Call("redirect", <<>>, << 10 >>) >>
    /\ UNCHANGED << replies, landing, search_name, locations, results,
                    status, body >>

\* line 94 raises
RedirectRaises(type) ==
    /\ pc = "redirect_wait"
    /\ CanRaise(type)
    /\ replies' = Append(replies, Raised(type))
    /\ Fail(ResolveExcept(Exc(type, 0)))
    /\ UNCHANGED << op, calls, landing, search_name, locations, results >>

\* lines 95-127: the redirect chain landed on final_url with status code;
\* the handler matches the coordinates, else extracts the place name and
\* issues the geocode lookup
RedirectReturns(final_url, code) ==
    /\ pc = "redirect_wait"
    /\ replies' = Append(replies, Reply("http", code, <<>>))
    /\ landing' = << final_url >>
    /\ LET coord_match == CoordSearch(final_url)
           match == PlaceSearch(final_url)
       IN  IF coord_match # <<>>
           THEN /\ Succeed(<< [ latitude |-> PyFloat(coord_match[1]),
                                longitude |-> PyFloat(coord_match[2]),
                                isAreaResult |-> FALSE ] >>)
                /\ UNCHANGED << calls, search_name >>
           ELSE IF match = <<>>
           THEN /\ Fail(ResolveExcept(Exc("HTTPException", 400)))
                /\ UNCHANGED << calls, search_name >>
           ELSE /\ search_name' = << SearchName(match[1]) >>
                /\ calls' = Append(calls, Call("geocode", SearchName(match[1]),
                                           << 10 >>))
                /\ pc' = "geocode_wait"
                /\ UNCHANGED << status, body >>
    /\ UNCHANGED << op, locations, results >>

\* GeocodeRaises with the lookup tried again (up to twice) after a failure
GeocodeRaisesRetry(type) ==
    /\ pc = "geocode_wait"
    /\ CanRaise(type)
    /\ replies' = Append(replies, Raised(type))
    /\ IF Len(calls) < 4
       THEN /\ calls' = Append(calls, calls[Len(calls)])
            /\ UNCHANGED << pc, status, body >>
       ELSE /\ Fail(ResolveExcept(Exc(type, 0)))
            /\ UNCHANGED calls
    /\ UNCHANGED << op, landing, search_name, locations, results >>

\* line 127 raises
GeocodeRaises(type) ==
    /\ pc = "geocode_wait"
    /\ CanRaise(type)
    /\ replies' = Append(replies, Raised(type))
    /\ Fail(ResolveExcept(Exc(type, 0)))
    /\ UNCHANGED << op, calls, landing, search_name, locations, results >>

\* lines 128-141: the outcome of the handler for the geocoder's response
GeocodeOutcome(code, json, json_error) ==
    IF RaisesForStatus(code) THEN Exc("HTTPError", 0)
    ELSE IF ~json.valid THEN Exc(json_error, 0)
    ELSE IF json.data = <<>> THEN Exc("HTTPException", 404)
    ELSE LET location == json.data[1]
         IN  IF PyFloat(location.lat) = <<>> \/ PyFloat(location.lon) = <<>>
             THEN Exc("ValueError", 0)
             ELSE [ type |-> "return", code |-> 200,
                    value |-> [ latitude |-> PyFloat(location.lat),
                                longitude |-> PyFloat(location.lon),
                                found_name |-> location.display_name,
                                isAreaResult |-> FALSE ] ]

\* lines 127-144: the geocoder answered
GeocodeReturns(code, json, json_error) ==
    /\ pc = "geocode_wait"
    /\ replies' = Append(replies, Reply("http", code, << json >>))
    /\ LET out == GeocodeOutcome(code, json, json_error)
       IN  IF out.type = "return"
           THEN Succeed(<< out.value >>)
           ELSE Fail(ResolveExcept(out))
    /\ UNCHANGED << op, calls, landing, search_name, locations, results >>

(***************************************************************************)
(* search_location                                                         *)
(***************************************************************************)
\* lines 152-153
SearchExcept(e) == IF IsRequestException(e) THEN 503 ELSE EscapedStatus(e)

\* line 149: requests.get(url), with no timeout
SearchStart(name) ==
    /\ pc = "idle"
    /\ pc' = "search_wait"
    /\ op' = "search"
    /\ search_name' = << name >>
    /\ calls' = << Call("search", name, <<>>) >>
    /\ UNCHANGED << replies, landing, locations, results, status, body >>

\* line 149 raises
SearchRaises(type) ==
    /\ pc = "search_wait"
    /\ CanRaise(type)
    /\ replies' = Append(replies, Raised(type))
    /\ Fail(SearchExcept(Exc(type, 0)))
    /\ UNCHANGED << op, calls, landing, search_name, locations, results >>

\* lines 150-153: the provider answered; its JSON is returned as it is
SearchReturns(code, json, json_error) ==
    /\ pc = "search_wait"
    /\ replies' = Append(replies, Reply("http", code, << json >>))
    /\ IF RaisesForStatus(code) THEN Fail(SearchExcept(Exc("HTTPError", 0)))
       ELSE IF ~json.valid THEN Fail(SearchExcept(Exc(json_error, 0)))
       ELSE Succeed(<< json >>)
    /\ UNCHANGED << op, calls, landing, search_name, locations, results >>

(***************************************************************************)
(* fetch_weather, POST /estimate and POST /compare                         *)
(***************************************************************************)
\* lines 51-54: the exception fetch_weather raises for exception e of its
\* try block
FetchWeatherExcept(e) ==
    IF e.type = "Timeout" THEN Exc("HTTPException", 408)
    ELSE IF IsRequestException(e) THEN Exc("HTTPException", 503)
    ELSE e

\* lines 42-50: the try block of fetch_weather for the provider's response
FetchWeatherTry(code, json, json_error) ==
    IF RaisesForStatus(code) THEN Exc("HTTPError", 0)
    ELSE IF ~json.valid THEN Exc(json_error, 0)
    ELSE IF json.current_weather = <<>> THEN Exc("KeyError", 0)
    ELSE [ type |-> "return", code |-> 200,
           value |-> [ temperature_C |-> json.current_weather[1].temperature,
                       wind_speed_mps |-> json.current_weather[1].windspeed,
                       pressure_Pa |-> StandardPressurePa ] ]

\* fetch_weather for the provider's response: the observation returned or
\* the exception raised
FetchWeather(code, json, json_error) ==
    LET out == FetchWeatherTry(code, json, json_error)
    IN  IF out.type = "return" THEN out ELSE FetchWeatherExcept(out)

\* line 158: fetch_weather is called, and issues its request (line 42)
EstimateStart(req) ==
    /\ pc = "idle"
    /\ pc' = "weather_wait"
    /\ op' = "estimate"
    /\ locations' = << req >>
    /\ calls' = << Call("weather", << req.latitude, req.longitude >>,
                        << 10 >>) >>
    /\ UNCHANGED << replies, landing, search_name, results, status, body >>

\* line 42 raises in the fetch_weather of line 158
EstimateWeatherRaises(type) ==
    /\ pc = "weather_wait"
    /\ op = "estimate"
    /\ CanRaise(type)
    /\ replies' = Append(replies, Raised(type))
    /\ Fail(EscapedStatus(FetchWeatherExcept(Exc(type, 0))))
    /\ UNCHANGED << op, calls, landing, search_name, locations, results >>

\* lines 158-168: the weather provider answered
EstimateWeatherReturns(code, json, json_error) ==
    /\ pc = "weather_wait"
    /\ op = "estimate"
    /\ replies' = Append(replies, Reply("http", code, << json >>))
    /\ LET out == FetchWeather(code, json, json_error)
       IN  IF out.type = "return"
           THEN Succeed(<< Estimation(locations[1], out.value) >>)
           ELSE Fail(EscapedStatus(out))
    /\ UNCHANGED << op, calls, landing, search_name, locations, results >>

\* FirstTwo without the slice: every location
FirstTwoAll(locs) == locs

\* line 174: req.locations[:2]
FirstTwo(locs) == SubSeq(locs, 1, IF Len(locs) < 2 THEN Len(locs) ELSE 2)

\* lines 173-175: the loop starts, and fetches the weather of the first
\* location if there is one
CompareStart(locs) ==
    /\ pc = "idle"
    /\ op' = "compare"
    /\ locations' = locs
    /\ results' = <<>>
    /\ IF FirstTwo(locs) = <<>>
       THEN /\ Succeed(<<>>)
            /\ UNCHANGED calls
       ELSE /\ pc' = "weather_wait"
            /\ calls' = << Call("weather", << locs[1].latitude,
                                               locs[1].longitude >>,
                                << 10 >>) >>
            /\ UNCHANGED << status, body >>
    /\ UNCHANGED << replies, landing, search_name >>

\* line 175 for the location after those of `done`: the call fetch_weather
\* issues
NextFetch(done) ==
    LET loc == FirstTwo(locations)[Len(done) + 1]
    IN  Call("weather", << loc.latitude, loc.longitude >>, << 10 >>)

\* CompareWeatherRaises with the failed location skipped (try/except around
\* the loop body) and the loop going on
CompareWeatherSkips(type) ==
    /\ pc = "weather_wait"
    /\ op = "compare"
    /\ CanRaise(type)
    /\ replies' = Append(replies, Raised(type))
    /\ IF Len(replies) + 1 < Len(FirstTwo(locations))
       THEN /\ calls' = Append(calls, NextFetch(replies))
            /\ UNCHANGED << pc, status, body >>
       ELSE /\ Succeed(results)
            /\ UNCHANGED calls
    /\ UNCHANGED << op, landing, search_name, locations, results >>

\* line 42 raises in the fetch_weather of line 175
CompareWeatherRaises(type) ==
    /\ pc = "weather_wait"
    /\ op = "compare"
    /\ CanRaise(type)
    /\ replies' = Append(replies, Raised(type))
    /\ Fail(EscapedStatus(FetchWeatherExcept(Exc(type, 0))))
    /\ UNCHANGED << op, calls, landing, search_name, locations, results >>

\* lines 175-186: the weather provider answered for the location at hand;
\* its result is appended and the loop goes on to the next location
CompareWeatherReturns(code, json, json_error) ==
    /\ pc = "weather_wait"
    /\ op = "compare"
    /\ replies' = Append(replies, Reply("http", code, << json >>))
    /\ LET out == FetchWeather(code, json, json_error)
           loc == FirstTwo(locations)[Len(results) + 1]
       IN  IF out.type # "return"
           THEN /\ Fail(EscapedStatus(out))
                /\ UNCHANGED << calls, results >>
           ELSE LET appended == Append(results, Estimation(loc, out.value))
                IN  /\ results' = appended
                    /\ IF Len(appended) < Len(FirstTwo(locations))
                       THEN /\ calls' = Append(calls, NextFetch(appended))
                            /\ UNCHANGED << pc, status, body >>
                       ELSE /\ Succeed(appended)
                            /\ UNCHANGED calls
    /\ UNCHANGED << op, landing, search_name, locations >>

\* the response was sent; the next request starts from nothing
NextRequest ==
    /\ pc = "done"
    /\ pc' = "idle"
    /\ op' = "none"
    /\ calls' = <<>>
    /\ replies' = <<>>
    /\ landing' = <<>>
    /\ search_name' = <<>>
    /\ locations' = <<>>
    /\ results' = <<>>
    /\ status' = 0
    /\ body' = <<>>

Next ==
    \/ ResolveStart
    \/ \E type \in NetworkExceptions : RedirectRaises(type)
    \/ \E final_url \in FinalUrls, code \in HttpCodes :
          RedirectReturns(final_url, code)
    \/ \E type \in NetworkExceptions : GeocodeRaises(type)
    \/ \E code \in HttpCodes, json \in GeoBodies :
          \E je \in JsonErrorsOf(json) :
          GeocodeReturns(code, json, je)
    \/ \E name \in SearchNames : SearchStart(name)
    \/ \E type \in NetworkExceptions : SearchRaises(type)
    \/ \E code \in HttpCodes, json \in GeoBodies :
          \E je \in JsonErrorsOf(json) :
          SearchReturns(code, json, je)
    \/ \E req \in WindRequests : EstimateStart(req)
    \/ \E type \in NetworkExceptions : EstimateWeatherRaises(type)
    \/ \E code \in HttpCodes, json \in WeatherBodies :
          \E je \in JsonErrorsOf(json) :
          EstimateWeatherReturns(code, json, je)
    \/ \E locs \in SeqsUpTo(WindRequests, MaxLocations) : CompareStart(locs)
    \/ \E type \in NetworkExceptions : CompareWeatherRaises(type)
    \/ \E code \in HttpCodes, json \in WeatherBodies :
          \E je \in JsonErrorsOf(json) :
          CompareWeatherReturns(code, json, je)
    \/ NextRequest

Spec == Init /\ [][Next]_vars

(***************************************************************************)
(* Vocabulary of the properties.  A coordinate marker is described here by *)
(* its shape, independently of the search the handler runs.                *)
(***************************************************************************)
RECURSIVE Pow10(_)
Pow10(n) == IF n = 0 THEN 1 ELSE 10 * Pow10(n - 1)

\* t is an optional '-', one or more digits, a '.', one or more digits
IsDecimalText(t) ==
    \E p \in 1..Len(t) :
        LET first == IF t[1] = "-" THEN 2 ELSE 1
        IN  /\ t[p] = "."
            /\ first < p
            /\ p < Len(t)
            /\ \A i \in first..Len(t) : i # p => IsDigit(t[i])

\* value v, a <<mantissa, k>>, is the number the decimal text t writes
IsValueOf(v, t) ==
    LET p    == CHOOSE i \in 1..Len(t) : t[i] = "."
        frac == Len(t) - p
        mag  == DigitsValue(SelectSeq(t, IsDigit))
        num  == IF t[1] = "-" THEN 0 - mag ELSE mag
    IN  /\ Len(v) = 2
        /\ v[1] * Pow10(frac) = num * Pow10(v[2])

\* the indices of u at which text w starts
StartsOf(u, w) ==
    { i \in 1..Len(u) :
        i + Len(w) - 1 <= Len(u) /\ SubSeq(u, i, i + Len(w) - 1) = w }

\* the indices of u that hold the last digit of a run of digits
DigitRunLasts(u) ==
    { k \in 1..Len(u) : IsDigit(u[k]) /\ (k = Len(u) \/ ~IsDigit(u[k + 1])) }

\* the occurrences in u of lead, decimal, sep, decimal with the second
\* decimal not followed by a further digit: <<start, lat text, lon text>>
MarkersOf(u, lead, sep) ==
    { << t[1], SubSeq(u, t[1] + Len(lead), t[2] - 1),
         SubSeq(u, t[2] + Len(sep), t[3]) >> :
        t \in { x \in StartsOf(u, lead) \X StartsOf(u, sep) \X DigitRunLasts(u) :
                  /\ x[1] + Len(lead) < x[2]
                  /\ x[2] + Len(sep) <= x[3]
                  /\ IsDecimalText(SubSeq(u, x[1] + Len(lead), x[2] - 1))
                  /\ IsDecimalText(SubSeq(u, x[2] + Len(sep), x[3])) } }

\* the "@lat,lon" markers of u
AtMarkers(u) == MarkersOf(u, << "@" >>, << "," >>)

\* the "!3dlat!4dlon" markers of u
BangMarkers(u) == MarkersOf(u, << "!", "3", "d" >>, << "!", "4", "d" >>)

\* u has a "/place/<name>" segment with a non-empty name
HasPlaceSegment(u) ==
    \E i \in 1..Len(u) :
        /\ i + Len(PlaceLit) <= Len(u)
        /\ SubSeq(u, i, i + Len(PlaceLit) - 1) = PlaceLit
        /\ u[i + Len(PlaceLit)] # "/"

\* the response is the location of marker m, as a precise point
AnsweredFrom(m) ==
    /\ pc = "done"
    /\ status = 200
    /\ Len(body) = 1
    /\ body[1].isAreaResult = FALSE
    /\ IsValueOf(body[1].latitude, m[2])
    /\ IsValueOf(body[1].longitude, m[3])

GeocodeIssued == \E i \in 1..Len(calls) : calls[i].kind = "geocode"

Landed == op = "resolve" /\ landing # <<>>

\* reply i reports a failed call: requests raised, or the response of a
\* call followed by raise_for_status is 4xx or 5xx
FailedCall(i) ==
    \/ replies[i].kind \in NetworkExceptions
    \/ /\ replies[i].kind = "http"
       /\ calls[i].kind # "redirect"
       /\ RaisesForStatus(replies[i].code)

C2_BangMarkerResolves ==
    (Landed /\ BangMarkers(landing[1]) # {} /\ AtMarkers(landing[1]) = {}) =>
        /\ \E m \in BangMarkers(landing[1]) : AnsweredFrom(m)
        /\ ~GeocodeIssued
        /\ search_name = <<>>

(***************************************************************************)
(* C2 amended. The coordinate-pattern stage recognises only the "@lat,lon" *)
(* form: for a final URL with a "!3dlat!4dlon" marker and no "@lat,lon"    *)
(* marker the handler goes on to place-name extraction; the request ends   *)
(* in 400 when the URL has no /place/ segment, and else the geocode lookup *)
(* is issued and only its answer can make the request succeed.             *)
(***************************************************************************)
C2_BangMarkerNotRecognised ==
    (Landed /\ BangMarkers(landing[1]) # {} /\ AtMarkers(landing[1]) = {}) =>
        IF HasPlaceSegment(landing[1])
        THEN /\ GeocodeIssued
             /\ search_name # <<>>
             /\ status = 200 => (Len(replies) = 2 /\ replies[2].kind = "http")
        ELSE /\ pc = "done"
             /\ status = 400
             /\ body = <<>>
             /\ ~GeocodeIssued

\* a place URL whose only marker is the "!3d...!4d..." one is waiting for
\* the geocoder
C2_Witness ==
    /\ Landed
    /\ pc = "geocode_wait"
    /\ landing[1] = PlaceLit \o << "a" >> \o << "/" >> \o BangMarker
    /\ calls[2].arg = << "a" >>

EmptyResultSet(i) ==
    /\ calls[i].kind = "geocode"
    /\ replies[i].kind = "http"
    /\ ~RaisesForStatus(replies[i].code)
    /\ replies[i].json[1].valid
    /\ replies[i].json[1].data = <<>>

(***************************************************************************)
(* C4. In resolve_gmaps_url, when the final URL has no coordinate marker,  *)
(* has a /place/ segment and the geocoder returns an empty result set, the *)
(* request ends in 404 with no location; the surrounding error handler     *)
(* does not turn the 404 into another status.                              *)
(***************************************************************************)
C4_EmptyGeocodeIsNotFound ==
    (op = "resolve" /\ Len(replies) = 2 /\ EmptyResultSet(2)) =>
        /\ pc = "done"
        /\ status = 404
        /\ body = <<>>

\* such a request, for a URL with a place segment and no marker
C4_Witness ==
    /\ Landed
    /\ Len(replies) = 2
    /\ EmptyResultSet(2)
    /\ AtMarkers(landing[1]) = {}
    /\ HasPlaceSegment(landing[1])
    /\ status = 404

Min(a, b) == IF a < b THEN a ELSE b

(***************************************************************************)
(* C5. For every /compare request with n locations in which all weather    *)
(* fetches succeed, exactly min(n, 2) weather fetches are issued, for the  *)
(* first min(n, 2) locations in order, and the returned array has length   *)
(* min(n, 2) with element i the estimation for locations[i].               *)
(***************************************************************************)
C5_CompareFirstTwo ==
    (op = "compare" /\ pc = "done" /\ status = 200) =>
        LET k == Min(Len(locations), 2)
        IN  /\ Len(calls) = k
            /\ Len(replies) = k
            /\ Len(body) = k
            /\ \A i \in 1..k :
                  /\ calls[i].kind = "weather"
                  /\ calls[i].arg = << locations[i].latitude,
                                       locations[i].longitude >>
                  /\ body[i].location_input =
                        [ latitude |-> locations[i].latitude,
                          longitude |-> locations[i].longitude ]
                  /\ body[i].weather.temperature_C =
                        replies[i].json[1].current_weather[1].temperature
                  /\ body[i].weather.wind_speed_mps =
                        replies[i].json[1].current_weather[1].windspeed
                  /\ body[i] = Estimation(locations[i], body[i].weather)

\* three locations, the first two different, answered with two results
C5_Witness ==
    /\ op = "compare"
    /\ pc = "done"
    /\ status = 200
    /\ Len(locations) = 3
    /\ locations[1] # locations[2]
    /\ Len(body) = 2
    /\ body[1].weather # body[2].weather

(***************************************************************************)
(* C6. In /estimate and /compare, if a weather fetch times out, the        *)
(* request ends in 503 or the timeout-specific 408 with no estimation      *)
(* returned; in /compare this holds for either location: no partial        *)
(* results array is returned and no location is fetched after the failure. *)
(***************************************************************************)
C6_WeatherTimeoutFails ==
    \A i \in 1..Len(replies) :
        (op \in {"estimate", "compare"} /\ replies[i].kind = "Timeout") =>
            /\ i = Len(replies)
            /\ Len(calls) = i
            /\ pc = "done"
            /\ status \in {408, 503}
            /\ body = <<>>

\* the fetch for the second of three locations timed out
C6_Witness ==
    /\ op = "compare"
    /\ Len(locations) = 3
    /\ Len(replies) = 2
    /\ replies[2].kind = "Timeout"
    /\ Len(results) = 1
    /\ pc = "done"
    /\ status = 408
    /\ body = <<>>

(***************************************************************************)
(* C7. Every outbound HTTP call made by the service (weather fetch,        *)
(* redirect-follow, geocode lookup, free-text search) carries a fixed      *)
(* finite timeout.                                                         *)
(***************************************************************************)
C7_EveryCallHasTimeout ==
    \A i \in 1..Len(calls) : calls[i].timeout # <<>>

(***************************************************************************)
(* C8. The timeout-to-status mapping is uniform: a request ended by an     *)
(* upstream timeout gets the same status in every operation, that is, the  *)
(* status a timed-out weather fetch gets.                                  *)
(***************************************************************************)
C8_TimeoutStatusUniform ==
    (pc = "done" /\ replies # <<>> /\ replies[Len(replies)].kind = "Timeout") =>
        status = EscapedStatus(FetchWeatherExcept(Exc("Timeout", 0)))

(***************************************************************************)
(* C9. A non-2xx response from any upstream call (the redirect-follow      *)
(* included) ends the request with 503: nothing is returned and no         *)
(* further call is issued after it.                                        *)
(***************************************************************************)
C9_Non2xxIsUnavailable ==
    \A i \in 1..Len(replies) :
        (replies[i].kind = "http" /\ RaisesForStatus(replies[i].code)) =>
            /\ pc = "done"
            /\ status = 503
            /\ body = <<>>
            /\ Len(calls) = i

\* the /place/ segment of the final URL
PlaceSegment == PlaceSearch(landing[1])[1]

(***************************************************************************)
(* C10 as stated. The place name sent to the geocoder is                   *)
(* trim(before_first_bar(replace_plus(percent_decode(segment)))): the      *)
(* segment is decoded first and its '+' replaced afterwards.               *)
(***************************************************************************)
C10_DecodeThenReplace ==
    (Landed /\ GeocodeIssued) =>
        calls[2].arg = Strip(SplitFirstBar(ReplacePlus(Unquote(PlaceSegment))))

(***************************************************************************)
(* C10 amended. The place name sent to the geocoder is                     *)
(* trim(before_first_bar(percent_decode(replace_plus(segment)))): the '+'  *)
(* of the segment are replaced first and the result is decoded, so that a  *)
(* percent-encoded plus (%2B) stays a '+' in the name.                     *)
(***************************************************************************)
C10_ReplaceThenDecode ==
    (Landed /\ GeocodeIssued) =>
        /\ calls[2].arg = Strip(SplitFirstBar(Unquote(ReplacePlus(PlaceSegment))))
        /\ search_name = << calls[2].arg >>

\* the segment "a+%2B" was sent to the geocoder as "a +"
C10_Witness ==
    /\ Landed
    /\ GeocodeIssued
    /\ PlaceSegment = << "a", "+", "%", "2", "B" >>
    /\ calls[2].arg = << "a", " ", "+" >>

====
